---- MODULE Spec2Model ----
(***************************************************************************)
(* JavaMaster AI quiz application (gramatikov88/JAVA-test).                *)
(*                                                                         *)
(*   App        : the React component holding the quiz state, its timer    *)
(*                effect and its handlers           (src/unnamed/part_000) *)
(*   service    : getClient, cleanCode, generateQuestion, simulateJavaCode, *)
(*                gradeExam                    (src/components/Loading.tsx) *)
(*   Editor     : the Monaco wrapper and its placeholder decorations       *)
(*                                              (src/components/Editor.tsx) *)
(*                                                                         *)
(* Strings the code inspects character by character (code snippets, editor *)
(* contents) are sequences of one-character strings.  A value of type      *)
(* T | null is a sequence of length 0 (null) or 1 (the value).             *)
(***************************************************************************)
EXTENDS Integers, Sequences, FiniteSets, TLC

\* ------------------------------------------------------------------------
\* Bounds of the model
\* ------------------------------------------------------------------------
\* questions generated in one run
MaxQuestions == 2
\* cap of the attempts counter (Run / Reset presses per timer period)
MaxAttempts == 2
\* cap of elapsedTime (timer ticks per timer period)
MaxTime == 1
\* longest input string given to cleanCode
MaxCodeLen == 6
\* service invocations in one run of the service alone
MaxCalls == 5

VARIABLES
    \* ---- environment
    apiKey,            \* process.env.API_KEY is set
    \* ---- App state (useState / useRef)
    question,          \* GeneratedQuestion | null
    userCode,          \* string
    simulationResult,  \* SimulationResult | null
    examResult,        \* ExamResult | null
    attempts,          \* number
    elapsedTime,       \* number
    isGenerating, isSimulating, isGrading,
    error,             \* string | null
    timerRef,          \* timerRef.current: an interval id, 0 for null
    \* ---- browser
    intervals,         \* ids of the intervals that are registered and not cleared
    \* ---- service calls awaiting the response of the external model
    calls,
    nextId,            \* number of questions generated so far + 1
    \* ---- history (not read by the program)
    lastOp,            \* the handler that ran last
    \* ---- history of the loaded question (empty and 0 when none is loaded)
    loadedCode,        \* the code the editor was loaded with for the question
    runs,              \* handleRunCode invocations since the question was loaded
    presses,           \* handleRunCode and handleReset invocations since the
                       \* question was loaded or the exam result was dismissed
    ticks,             \* interval callbacks run since the question was loaded
                       \* or the exam result was dismissed
    simFor,            \* id of the question the Run that produced
                       \* simulationResult was issued on (0 when it is null)
    gradedBy,          \* what the gradeExam call that produced examResult
                       \* was given (Null when examResult is null)
    \* ---- one service operation at a time, called directly
    service,           \* the invocation in progress or completed last
    invocations,       \* invocations so far
    requestsSent,      \* generateContent requests sent so far
    \* ---- cleanCode applied to one input
    code, cleaned,
    \* ---- Editor component
    files,             \* props.files: file name -> content
    activeFileName,    \* props.activeFileName
    editorRef,         \* editorRef.current is set (the editor has mounted)
    decorationsRef,    \* decorationsRef.current: the decorated ranges
    editorOp

appVars == <<apiKey, question, userCode, simulationResult, examResult, attempts,
             elapsedTime, isGenerating, isSimulating, isGrading, error, timerRef,
             intervals, calls, nextId, lastOp, loadedCode, runs, presses,
             ticks, simFor, gradedBy>>
serviceVars == <<service, invocations, requestsSent>>
cleanVars == <<code, cleaned>>
editorVars == <<files, activeFileName, editorRef, decorationsRef, editorOp>>
vars == <<appVars, serviceVars, cleanVars, editorVars>>

Null == <<>>
Some(x) == <<x>>

Min(S) == CHOOSE x \in S : \A y \in S : x <= y
Max(S) == CHOOSE x \in S : \A y \in S : x >= y

\* all sequences over A of length 0..n
Strings(A, n) == UNION {[1..k -> A] : k \in 0..n}

\* ------------------------------------------------------------------------
\* cleanCode                                  (src/components/Loading.tsx)
\* ------------------------------------------------------------------------
\* characters '.' does not match and after which '^' (flag m) matches
LineTerminators == {"\n", "\r"}
\* characters \s matches
Whitespace == {" ", "\n", "\r"}
CodeAlphabet == {"/", "*", "\n", "\r", " ", "a"}

\* the index of the first line terminator at or after i, Len(s)+1 if none
EndOfLine(s, i) ==
    Min({j \in i..Len(s) : s[j] \in LineTerminators} \cup {Len(s) + 1})

\* .replace(/\/\/.*$/gm, '')
RECURSIVE RemoveLineComments(_, _)
RemoveLineComments(s, i) ==
    IF i > Len(s) THEN <<>>
    ELSE IF i < Len(s) /\ s[i] = "/" /\ s[i + 1] = "/"
         THEN RemoveLineComments(s, EndOfLine(s, i))
         ELSE <<s[i]>> \o RemoveLineComments(s, i + 1)

\* the indices of a "*/" that can close a "/*" opened at i
Closers(s, i) == {j \in (i + 2)..(Len(s) - 1) : s[j] = "*" /\ s[j + 1] = "/"}

\* .replace(/\/\*[\s\S]*?\*\//g, '')
RECURSIVE RemoveBlockComments(_, _)
RemoveBlockComments(s, i) ==
    IF i > Len(s) THEN <<>>
    ELSE IF i < Len(s) /\ s[i] = "/" /\ s[i + 1] = "*" /\ Closers(s, i) # {}
         THEN RemoveBlockComments(s, Min(Closers(s, i)) + 2)
         ELSE <<s[i]>> \o RemoveBlockComments(s, i + 1)

\* the last index of the run of whitespace that starts at i (i-1 if none)
WhitespaceEnd(s, i) ==
    Max({k \in (i - 1)..Len(s) : \A j \in i..k : s[j] \in Whitespace})

\* .replace(/^\s*[\r\n]/gm, '\n'): at the start of a line, the longest run
\* of whitespace that ends with a line terminator becomes one "\n"
RECURSIVE RemoveEmptyLines(_, _)
RemoveEmptyLines(s, i) ==
    IF i > Len(s) THEN <<>>
    ELSE LET atLineStart == i = 1 \/ s[i - 1] \in LineTerminators
             terms == {j \in i..WhitespaceEnd(s, i) : s[j] \in LineTerminators}
         IN IF atLineStart /\ terms # {}
            THEN <<"\n">> \o RemoveEmptyLines(s, Max(terms) + 1)
            ELSE <<s[i]>> \o RemoveEmptyLines(s, i + 1)

\* the last index of the run of "\n" that starts at i (i-1 if none)
NewlineEnd(s, i) ==
    Max({k \in (i - 1)..Len(s) : \A j \in i..k : s[j] = "\n"})

\* .replace(/\n{3,}/g, '\n\n')
RECURSIVE CollapseNewlines(_, _)
CollapseNewlines(s, i) ==
    IF i > Len(s) THEN <<>>
    ELSE IF NewlineEnd(s, i) - i + 1 >= 3
         THEN <<"\n", "\n">> \o CollapseNewlines(s, NewlineEnd(s, i) + 1)
         ELSE <<s[i]>> \o CollapseNewlines(s, i + 1)

\* String.prototype.trim
Trim(s) ==
    LET keep == {j \in 1..Len(s) : s[j] \notin Whitespace}
    IN IF keep = {} THEN <<>> ELSE SubSeq(s, Min(keep), Max(keep))

\* cleanCode without the removal of block comments
cleanCode_KeepsBlockComments(c) ==
    Trim(CollapseNewlines(RemoveEmptyLines(RemoveLineComments(c, 1), 1), 1))

cleanCode(c) ==
    Trim(CollapseNewlines(RemoveEmptyLines(RemoveBlockComments(
        RemoveLineComments(c, 1), 1), 1), 1))

\* ------------------------------------------------------------------------
\* The service                                (src/components/Loading.tsx)
\* ------------------------------------------------------------------------
\* The outcome of a call: it throws an Error with a message, or returns.
Throw(m) == [threw |-> TRUE, message |-> m, value |-> Null]
Return(v) == [threw |-> FALSE, message |-> "", value |-> Some(v)]

NoApiKey == "API Key not found in environment"
NoResponse == "No response from Gemini"
SyntaxError == "Unexpected token"

getClient(key) ==
    IF ~key THEN Throw(NoApiKey) ELSE Return("client")

\* What ai.models.generateContent can do: reject with an error, or resolve
\* with a response whose text is empty, is no JSON, or is the JSON text of
\* some data.  A JSON text is <<"json", data>>, any other text <<"text">>.
RejectMessages == {"", "fetch failed"}
JSONtext(data) == <<"json", data>>
Responses(Data) ==
    {[rejected |-> TRUE, message |-> m, text |-> <<>>] : m \in RejectMessages}
    \cup {[rejected |-> FALSE, message |-> "", text |-> t] :
             t \in {<<>>, <<"text">>} \cup {JSONtext(d) : d \in Data}}

JSONparse(text) ==
    IF Len(text) = 2 /\ text[1] = "json" THEN Return(text[2]) ELSE Throw(SyntaxError)

\* the code snippets the external model may put in a question (raw)
RawSnippets ==
    { <<"_", "_", "_", "_">>,
      <<"a", "/", "/", "a", "\n", "_", "_", "_", "_">> }
QuestionData == {[codeSnippet |-> s] : s \in RawSnippets}
SimulationData == {[isCorrect |-> TRUE]}
ExamData ==
    { [grade |-> 6, styleScore |-> 100, correctnessScore |-> 0],
      [grade |-> 7, styleScore |-> 101, correctnessScore |-> -1] }

\* the responses simulateJavaCode and gradeExam are given in the App
AppResponses(Data) ==
    {r \in Responses(Data) : r.message = "" /\ r.text # <<"text">>}

\* `const text = response.text; if (!text) throw ...; JSON.parse(text)`,
\* the part the three operations share after the awaited request
ParsedResponse_NoEmptyCheck(resp) ==
    IF resp.rejected THEN Throw(resp.message) ELSE JSONparse(resp.text)

ParsedResponse(resp) ==
    IF resp.rejected THEN Throw(resp.message)
    ELSE IF resp.text = <<>> THEN Throw(NoResponse)
    ELSE JSONparse(resp.text)

\* generateQuestion from the response on: the snippet is cleaned and
\* initialCode is added
generateQuestion_RawInitialCode(resp) ==
    LET p == ParsedResponse(resp)
    IN IF p.threw THEN p
       ELSE Return([codeSnippet |-> cleanCode(p.value[1].codeSnippet),
                    initialCode |-> p.value[1].codeSnippet])

generateQuestion(resp) ==
    LET p == ParsedResponse(resp)
    IN IF p.threw THEN p
       ELSE LET cleanedSnippet == cleanCode(p.value[1].codeSnippet)
            IN Return([codeSnippet |-> cleanedSnippet,
                       initialCode |-> cleanedSnippet])

simulateJavaCode(resp) == ParsedResponse(resp)

gradeExam(resp) == ParsedResponse(resp)

\* ------------------------------------------------------------------------
\* App                                              (src/unnamed/part_000)
\* ------------------------------------------------------------------------
\* config, activeTab and startTime are written but never read by a handler
\* or by the timer effect; title, instructions, solution, explanation, output,
\* feedback and label are passed through to the prompts and the page.  They
\* are left out.

FailedToGenerate == "Failed to generate question. Please check API Key."
FailedToSimulate == "Failed to simulate code."
FailedToGrade == "Failed to grade exam."

\* the texts the learner types into the editor
EditCodes == { <<"i", "n", "t">> }

ErrorMessage_NoFallback(message, fallback) == message

\* e.message || fallback
ErrorMessage(message, fallback) ==
    IF message # "" THEN message ELSE fallback

\* setInterval returns an id that no registered interval and no holder has
NewIntervalId(registered, ref) ==
    Min({i \in 1..(Cardinality(registered) + 2) : i \notin registered \cup {ref}})

\* clearInterval(id) guarded by `if (id)`
ClearInterval(registered, ref) == registered \ {ref}

TimerState ==
    [intervals |-> intervals, timerRef |-> timerRef,
     attempts |-> attempts, elapsedTime |-> elapsedTime]

\* the effect without any clearInterval
TimerEffect_NeverClears(q, er, t) ==
    IF q # Null /\ er = Null
    THEN LET id == NewIntervalId(t.intervals, t.timerRef)
         IN [intervals |-> t.intervals \cup {id}, timerRef |-> id,
             attempts |-> 0, elapsedTime |-> 0]
    ELSE t

\* the effect with the condition `question` instead of `question && !examResult`
TimerEffect_IgnoresExamResult(q, er, t) ==
    LET cleaned_ == ClearInterval(t.intervals, t.timerRef)
    IN IF q # Null
       THEN LET id == NewIntervalId(cleaned_, t.timerRef)
            IN [intervals |-> cleaned_ \cup {id}, timerRef |-> id,
                attempts |-> 0, elapsedTime |-> 0]
       ELSE [t EXCEPT !.intervals = ClearInterval(cleaned_, t.timerRef)]

\* the effect without setAttempts(0)
TimerEffect_KeepsAttempts(q, er, t) ==
    LET cleaned_ == ClearInterval(t.intervals, t.timerRef)
    IN IF q # Null /\ er = Null
       THEN LET id == NewIntervalId(cleaned_, t.timerRef)
            IN [intervals |-> cleaned_ \cup {id}, timerRef |-> id,
                attempts |-> t.attempts, elapsedTime |-> 0]
       ELSE [t EXCEPT !.intervals = ClearInterval(cleaned_, t.timerRef)]

\* the effect without setElapsedTime(0)
TimerEffect_KeepsElapsedTime(q, er, t) ==
    LET cleaned_ == ClearInterval(t.intervals, t.timerRef)
    IN IF q # Null /\ er = Null
       THEN LET id == NewIntervalId(cleaned_, t.timerRef)
            IN [intervals |-> cleaned_ \cup {id}, timerRef |-> id,
                attempts |-> 0, elapsedTime |-> t.elapsedTime]
       ELSE [t EXCEPT !.intervals = ClearInterval(cleaned_, t.timerRef)]

\* The timer effect for the dependencies [question, examResult] = [q, er]:
\* the cleanup of the previous run, then the body.
TimerEffect(q, er, t) ==
    LET cleaned_ == ClearInterval(t.intervals, t.timerRef)
    IN IF q # Null /\ er = Null
       THEN LET id == NewIntervalId(cleaned_, t.timerRef)
            IN [intervals |-> cleaned_ \cup {id}, timerRef |-> id,
                attempts |-> 0, elapsedTime |-> 0]
       ELSE [t EXCEPT !.intervals = ClearInterval(cleaned_, t.timerRef)]

\* The render that follows a handler: the effect runs when a dependency
\* changed, and the state after it is committed.
Render(q, er, t) ==
    LET u == IF q = question /\ er = examResult THEN t ELSE TimerEffect(q, er, t)
    IN /\ question' = q
       /\ examResult' = er
       /\ intervals' = u.intervals
       /\ timerRef' = u.timerRef
       /\ attempts' = u.attempts
       /\ elapsedTime' = u.elapsedTime

\* the quiz screen is rendered (renderQuiz)
QuizShown == question # Null /\ ~isGenerating
\* the setup screen is rendered (renderSetup)
SetupShown == question = Null /\ ~isGenerating

\* <Editor readOnly={!!examResult}>
readOnly == examResult # Null
\* Reset Code: disabled={!!examResult}
ResetDisabled == examResult # Null
\* Test Run: disabled={isSimulating || !!examResult}
RunDisabled == isSimulating \/ examResult # Null
\* Finish & Grade: disabled={isGrading || !!examResult}
FinishDisabled == isGrading \/ examResult # Null

\* Number.prototype.toString of a non-negative integer
DigitChars == <<"0", "1", "2", "3", "4", "5", "6", "7", "8", "9">>
RECURSIVE toString(_)
toString(n) ==
    IF n < 10 THEN <<DigitChars[n + 1]>>
    ELSE toString(n \div 10) \o <<DigitChars[(n % 10) + 1]>>

\* String.prototype.padStart with a one-character filler
RECURSIVE padStart(_, _, _)
padStart(str, targetLength, ch) ==
    IF Len(str) >= targetLength THEN str
    ELSE padStart(<<ch>> \o str, targetLength, ch)

formatTime(seconds) ==
    LET mins == seconds \div 60
        secs == seconds % 60
    IN toString(mins) \o <<":">> \o padStart(toString(secs), 2, "0")

\* the exam result modal of renderQuiz and its Time and Attempts fields
ModalShown == QuizShown /\ examResult # Null
ModalTime == formatTime(elapsedTime)
ModalAttempts == attempts

\* A call awaiting its response: the operation, the question object it will
\* return (generateQuestion) or was given (qid), the metrics it was given
\* (gradeExam), and the history at the time of the call.  The other parts of
\* the prompt (instructions, solution, the learner's code, the language) do
\* not come back from the call and are left out.
Call(op, id, qid, time, att, r) ==
    [op |-> op, id |-> id, qid |-> qid, timeSpentSeconds |-> time,
     attempts |-> att, runs |-> r.runs, presses |-> r.presses,
     ticks |-> r.ticks]

NoHistory == [runs |-> 0, presses |-> 0, ticks |-> 0]

History == [runs |-> runs, presses |-> presses, ticks |-> ticks]

\* what a gradeExam call was given: the question and the metrics object
Graded(c) ==
    [qid |-> c.qid, timeSpentSeconds |-> c.timeSpentSeconds,
     attempts |-> c.attempts]

AppInit ==
    /\ apiKey \in BOOLEAN
    /\ question = Null
    /\ userCode = <<>>
    /\ simulationResult = Null
    /\ examResult = Null
    /\ attempts = 0
    /\ elapsedTime = 0
    /\ isGenerating = FALSE
    /\ isSimulating = FALSE
    /\ isGrading = FALSE
    /\ error = Null
    /\ timerRef = 0
    /\ intervals = {}
    /\ calls = {}
    /\ nextId = 1
    /\ lastOp = "init"
    /\ loadedCode = <<>>
    /\ runs = 0
    /\ presses = 0
    /\ ticks = 0
    /\ simFor = 0
    /\ gradedBy = Null

\* Start Challenge
handleStartQuiz ==
    /\ SetupShown
    /\ nextId <= MaxQuestions
    /\ LET client == getClient(apiKey)
       IN IF client.threw
          THEN /\ isGenerating' = FALSE
               /\ error' = Some(ErrorMessage(client.message, FailedToGenerate))
               /\ lastOp' = "generateFailed"
               /\ UNCHANGED <<calls, nextId>>
          ELSE /\ isGenerating' = TRUE
               /\ error' = Null
               /\ calls' = calls \cup
                    {Call("generateQuestion", nextId, 0, 0, 0, NoHistory)}
               /\ nextId' = nextId + 1
               /\ lastOp' = "handleStartQuiz"
    /\ simulationResult' = Null
    /\ simFor' = 0
    /\ Render(question, Null, TimerState)
    /\ gradedBy' = Null
    /\ UNCHANGED <<apiKey, userCode, isSimulating, isGrading, loadedCode, runs,
                   presses, ticks>>

\* generateQuestion settles: handleStartQuiz continues after its await
generateQuestionSettles ==
    \E c \in calls, resp \in Responses(QuestionData) :
        /\ c.op = "generateQuestion"
        /\ calls' = calls \ {c}
        /\ LET r == generateQuestion(resp)
           IN IF r.threw
                 THEN /\ error' = Some(ErrorMessage(r.message, FailedToGenerate))
                      /\ lastOp' = "generateFailed"
                      /\ Render(question, examResult, TimerState)
                      /\ UNCHANGED <<userCode, loadedCode, runs, presses, ticks>>
                 ELSE LET q == [id |-> c.id,
                                codeSnippet |-> r.value[1].codeSnippet,
                                initialCode |-> r.value[1].initialCode]
                      IN /\ userCode' = q.codeSnippet
                         /\ loadedCode' = q.codeSnippet
                         /\ runs' = 0
                         /\ presses' = 0
                         /\ ticks' = 0
                         /\ lastOp' = "questionLoaded"
                         /\ Render(Some(q), examResult, TimerState)
                         /\ UNCHANGED error
        /\ isGenerating' = FALSE
        /\ UNCHANGED <<apiKey, simulationResult, isSimulating, isGrading, nextId,
                       simFor, gradedBy>>

\* the editor's onCodeChange (the editor is read-only while examResult is set)
handleCodeChange ==
    \E newCode \in EditCodes :
        /\ QuizShown
        /\ ~readOnly
        /\ userCode' = newCode
        /\ lastOp' = "handleCodeChange"
        /\ UNCHANGED <<apiKey, question, simulationResult, examResult, attempts,
                       elapsedTime, isGenerating, isSimulating, isGrading, error,
                       timerRef, intervals, calls, nextId, loadedCode,
                       runs, presses, ticks, simFor, gradedBy>>

\* Test Run (disabled while isSimulating or examResult is set)
handleRunCode ==
    /\ QuizShown
    /\ ~RunDisabled
    /\ attempts < MaxAttempts
    /\ runs < MaxAttempts
    /\ simulationResult' = Null
    /\ simFor' = 0
    /\ attempts' = attempts + 1
    /\ runs' = runs + 1
    /\ presses' = presses + 1
    /\ LET client == getClient(apiKey)
       IN IF client.threw
          THEN /\ isSimulating' = FALSE
               /\ error' = Some(ErrorMessage(client.message, FailedToSimulate))
               /\ UNCHANGED calls
          ELSE /\ isSimulating' = TRUE
               /\ calls' = calls \cup
                    {Call("simulateJavaCode", 0, question[1].id, 0, 0, NoHistory)}
               /\ UNCHANGED error
    /\ lastOp' = "handleRunCode"
    /\ UNCHANGED <<apiKey, question, userCode, examResult, elapsedTime, isGenerating,
                   isGrading, timerRef, intervals, nextId, loadedCode, ticks,
                   gradedBy>>

\* simulateJavaCode settles: handleRunCode continues after its await
simulateJavaCodeSettles ==
    \E c \in calls, resp \in AppResponses(SimulationData) :
        /\ c.op = "simulateJavaCode"
        /\ calls' = calls \ {c}
        /\ LET r == simulateJavaCode(resp)
           IN IF r.threw
                 THEN /\ error' = Some(ErrorMessage(r.message, FailedToSimulate))
                      /\ UNCHANGED <<simulationResult, simFor>>
                 ELSE /\ simulationResult' = Some(r.value[1])
                      /\ simFor' = c.qid
                      /\ UNCHANGED error
        /\ isSimulating' = FALSE
        /\ lastOp' = "simulateSettled"
        /\ UNCHANGED <<apiKey, question, userCode, examResult, attempts, elapsedTime,
                       isGenerating, isGrading, timerRef, intervals, nextId,
                       loadedCode, runs, presses, ticks, gradedBy>>

\* Finish & Grade (disabled while isGrading or examResult is set)
handleFinishExam ==
    /\ QuizShown
    /\ ~FinishDisabled
    /\ LET client == getClient(apiKey)
       IN IF client.threw
          THEN /\ isGrading' = FALSE
               /\ error' = Some(ErrorMessage(client.message, FailedToGrade))
               /\ UNCHANGED calls
          ELSE /\ isGrading' = TRUE
               /\ calls' = calls \cup
                    {Call("gradeExam", 0, question[1].id,
                          elapsedTime, attempts, History)}
               /\ UNCHANGED error
    /\ lastOp' = "handleFinishExam"
    /\ UNCHANGED <<apiKey, question, userCode, simulationResult, examResult, attempts,
                   elapsedTime, isGenerating, isSimulating, timerRef, intervals,
                   nextId, loadedCode, runs, presses, ticks, simFor, gradedBy>>

\* gradeExam settles: handleFinishExam continues after its await
gradeExamSettles ==
    \E c \in calls, resp \in AppResponses(ExamData) :
        /\ c.op = "gradeExam"
        /\ calls' = calls \ {c}
        /\ LET r == gradeExam(resp)
           IN IF r.threw
                 THEN /\ error' = Some(ErrorMessage(r.message, FailedToGrade))
                      /\ Render(question, examResult, TimerState)
                      /\ UNCHANGED gradedBy
                 ELSE /\ Render(question, Some(r.value[1]),
                                [TimerState EXCEPT !.intervals =
                                    ClearInterval(intervals, timerRef)])
                      /\ gradedBy' = Some(Graded(c))
                      /\ UNCHANGED error
        /\ isGrading' = FALSE
        /\ lastOp' = "gradeSettled"
        /\ UNCHANGED <<apiKey, userCode, simulationResult, isGenerating, isSimulating,
                       nextId, loadedCode, runs, presses, ticks, simFor>>

\* the code handleReset puts into the editor
ResetCode(q, uc) == q.initialCode

\* Reset Code (disabled while examResult is set)
handleReset ==
    /\ QuizShown
    /\ ~ResetDisabled
    /\ attempts < MaxAttempts
    /\ userCode' = ResetCode(question[1], userCode)
    /\ simulationResult' = Null
    /\ simFor' = 0
    /\ attempts' = attempts + 1
    /\ presses' = presses + 1
    /\ lastOp' = "handleReset"
    /\ UNCHANGED <<apiKey, question, examResult, elapsedTime, isGenerating,
                   isSimulating, isGrading, error, timerRef, intervals, calls,
                   nextId, loadedCode, runs, ticks, gradedBy>>

\* New Task, and New Exam of the result modal
handleBackToSetup ==
    /\ QuizShown
    /\ userCode' = <<>>
    /\ simulationResult' = Null
    /\ error' = Null
    /\ Render(Null, Null, TimerState)
    /\ lastOp' = "handleBackToSetup"
    /\ loadedCode' = <<>>
    /\ runs' = 0
    /\ presses' = 0
    /\ ticks' = 0
    /\ simFor' = 0
    /\ gradedBy' = Null
    /\ UNCHANGED <<apiKey, isGenerating, isSimulating, isGrading, calls, nextId>>

\* Review Code of the result modal: setExamResult(null)
reviewCode ==
    /\ QuizShown
    /\ examResult # Null
    /\ Render(question, Null, TimerState)
    /\ presses' = 0
    /\ ticks' = 0
    /\ gradedBy' = Null
    /\ lastOp' = "reviewCode"
    /\ UNCHANGED <<apiKey, userCode, simulationResult, isGenerating, isSimulating,
                   isGrading, error, calls, nextId, loadedCode, runs, simFor>>

\* the close button of the error banner: setError(null)
dismissError ==
    /\ error # Null
    /\ error' = Null
    /\ lastOp' = "dismissError"
    /\ UNCHANGED <<apiKey, question, userCode, simulationResult, examResult, attempts,
                   elapsedTime, isGenerating, isSimulating, isGrading, timerRef,
                   intervals, calls, nextId, loadedCode, runs, presses, ticks,
                   simFor, gradedBy>>

\* a registered interval fires: setElapsedTime(prev => prev + 1)
tick ==
    \E id \in intervals :
        /\ elapsedTime < MaxTime
        /\ elapsedTime' = elapsedTime + 1
        /\ ticks' = ticks + 1
        /\ lastOp' = "tick"
        /\ UNCHANGED <<apiKey, question, userCode, simulationResult, examResult,
                       attempts, isGenerating, isSimulating, isGrading, error,
                       timerRef, intervals, calls, nextId, loadedCode,
                       runs, presses, simFor, gradedBy>>

\* ------------------------------------------------------------------------
\* The service operations called directly
\* ------------------------------------------------------------------------
ServiceOps == {"generateQuestion", "simulateJavaCode", "gradeExam"}

ResponseData(op) ==
    CASE op = "generateQuestion" -> QuestionData
      [] op = "simulateJavaCode" -> SimulationData
      [] op = "gradeExam" -> ExamData

\* what the operation does with the response of its request
Settled(op, resp) ==
    CASE op = "generateQuestion" -> generateQuestion(resp)
      [] op = "simulateJavaCode" -> simulateJavaCode(resp)
      [] op = "gradeExam" -> gradeExam(resp)

ServiceIdle ==
    /\ service = [pc |-> "idle", op |-> "none", requests |-> 0,
                  response |-> Null, result |-> Null]
    /\ invocations = 0
    /\ requestsSent = 0

\* an operation is called: getClient, then the request is sent and awaited
serviceCall ==
    \E op \in ServiceOps :
        /\ service.pc # "awaiting"
        /\ invocations < MaxCalls
        /\ invocations' = invocations + 1
        /\ LET client == getClient(apiKey)
           IN IF client.threw
              THEN /\ service' = [pc |-> "done", op |-> op, requests |-> 0,
                                  response |-> Null, result |-> Some(client)]
                   /\ UNCHANGED requestsSent
              ELSE /\ service' = [pc |-> "awaiting", op |-> op, requests |-> 1,
                                  response |-> Null, result |-> Null]
                   /\ requestsSent' = requestsSent + 1

\* the request settles and the operation returns or throws
serviceSettles ==
    /\ service.pc = "awaiting"
    /\ \E resp \in Responses(ResponseData(service.op)) :
          service' = [service EXCEPT !.pc = "done", !.response = Some(resp),
                                     !.result = Some(Settled(service.op, resp))]
    /\ UNCHANGED <<invocations, requestsSent>>

\* ------------------------------------------------------------------------
\* cleanCode applied to one input
\* ------------------------------------------------------------------------
CleanIdle == code = <<>> /\ cleaned = Null

applyCleanCode ==
    /\ cleaned = Null
    /\ cleaned' = Some(cleanCode(code))
    /\ UNCHANGED code

\* ------------------------------------------------------------------------
\* Editor                                      (src/components/Editor.tsx)
\* ------------------------------------------------------------------------
Placeholder == <<"_", "_", "_", "_">>
FileNames == {"Main.java", "Util.java"}
\* props.activeFileName may name no file of props.files
ActiveNames == FileNames \cup {"Other.java"}
\* the contents a file is given
EditorContents ==
    { <<>>, <<"x">>, <<"_", "_", "_">>, Placeholder, <<"x">> \o Placeholder,
      Placeholder \o <<"_">>, Placeholder \o Placeholder,
      Placeholder \o <<"x">> \o Placeholder }

\* files.find(f => f.name === activeFileName) || files[0]
activeFile(fs, name) == IF name \in DOMAIN fs THEN name ELSE "Main.java"

\* the loop `while ((match = regex.exec(code)) !== null)` with /____/g: the
\* ranges [start, end) of the matches, from index i (1-based) on
RECURSIVE Matches(_, _)
Matches(c, i) ==
    IF i + 3 > Len(c) THEN <<>>
    ELSE IF SubSeq(c, i, i + 3) = Placeholder
         THEN <<[start |-> i - 1, end |-> i + 3]>> \o Matches(c, i + 4)
         ELSE Matches(c, i + 1)

\* updateDecorations: the new value of decorationsRef.current (one id per
\* range given to deltaDecorations, here the range itself)
updateDecorations(c, decorations) ==
    IF c = <<>> THEN decorations ELSE Matches(c, 1)

EditorIdle ==
    /\ files = <<>>
    /\ activeFileName = ""
    /\ editorRef = FALSE
    /\ decorationsRef = <<>>
    /\ editorOp = "none"

EditorInit ==
    /\ files \in [FileNames -> EditorContents]
    /\ activeFileName \in ActiveNames
    /\ editorRef = FALSE
    /\ decorationsRef = <<>>
    /\ editorOp = "render"

\* handleEditorDidMount
editorMount ==
    /\ ~editorRef
    /\ editorRef' = TRUE
    /\ decorationsRef' =
         updateDecorations(files[activeFile(files, activeFileName)], decorationsRef)
    /\ editorOp' = "mount"
    /\ UNCHANGED <<files, activeFileName>>

\* The content of the active file changes, typed by the learner or set by
\* the parent: onDidChangeModelContent and the effect on activeFile.content
\* both call updateDecorations with the new content.
editorContentChange ==
    \E c \in EditorContents :
        LET f == activeFile(files, activeFileName)
        IN /\ c # files[f]
           /\ files' = [files EXCEPT ![f] = c]
           /\ decorationsRef' =
                IF editorRef THEN updateDecorations(c, decorationsRef)
                ELSE decorationsRef
           /\ editorOp' = "contentChange"
           /\ UNCHANGED <<activeFileName, editorRef>>

\* onFileChange: the parent sets another activeFileName; the effect on
\* activeFileName calls updateDecorations with that file's content
editorFileSwitch ==
    \E name \in ActiveNames :
        /\ name # activeFileName
        /\ activeFileName' = name
        /\ decorationsRef' =
             IF editorRef
             THEN updateDecorations(files[activeFile(files, name)], decorationsRef)
             ELSE decorationsRef
        /\ editorOp' = "fileSwitch"
        /\ UNCHANGED <<files, editorRef>>

\* the Editor is unmounted (the quiz screen is left); its refs are dropped
editorUnmount ==
    /\ editorRef
    /\ editorRef' = FALSE
    /\ decorationsRef' = <<>>
    /\ editorOp' = "render"
    /\ UNCHANGED <<files, activeFileName>>

\* ------------------------------------------------------------------------
\* Specifications
\* ------------------------------------------------------------------------
Init == AppInit /\ ServiceIdle /\ CleanIdle /\ EditorIdle

Next ==
    \/ handleStartQuiz /\ UNCHANGED <<serviceVars, cleanVars, editorVars>>
    \/ generateQuestionSettles /\ UNCHANGED <<serviceVars, cleanVars, editorVars>>
    \/ handleCodeChange /\ UNCHANGED <<serviceVars, cleanVars, editorVars>>
    \/ handleRunCode /\ UNCHANGED <<serviceVars, cleanVars, editorVars>>
    \/ simulateJavaCodeSettles /\ UNCHANGED <<serviceVars, cleanVars, editorVars>>
    \/ handleFinishExam /\ UNCHANGED <<serviceVars, cleanVars, editorVars>>
    \/ gradeExamSettles /\ UNCHANGED <<serviceVars, cleanVars, editorVars>>
    \/ handleReset /\ UNCHANGED <<serviceVars, cleanVars, editorVars>>
    \/ handleBackToSetup /\ UNCHANGED <<serviceVars, cleanVars, editorVars>>
    \/ reviewCode /\ UNCHANGED <<serviceVars, cleanVars, editorVars>>
    \/ dismissError /\ UNCHANGED <<serviceVars, cleanVars, editorVars>>
    \/ tick /\ UNCHANGED <<serviceVars, cleanVars, editorVars>>

\* the App run by the learner, the timer and the external model
Spec == Init /\ [][Next]_vars

ServiceInit == AppInit /\ ServiceIdle /\ CleanIdle /\ EditorIdle

ServiceNext ==
    \/ serviceCall /\ UNCHANGED <<appVars, cleanVars, editorVars>>
    \/ serviceSettles /\ UNCHANGED <<appVars, cleanVars, editorVars>>

\* the service operations called one after the other
SpecService == ServiceInit /\ [][ServiceNext]_vars

CleanInit ==
    /\ AppInit /\ apiKey
    /\ ServiceIdle /\ EditorIdle
    /\ code \in Strings(CodeAlphabet, MaxCodeLen)
    /\ cleaned = Null

CleanNext == applyCleanCode /\ UNCHANGED <<appVars, serviceVars, editorVars>>

\* cleanCode applied to every string up to MaxCodeLen characters
SpecClean == CleanInit /\ [][CleanNext]_vars

EditorSpecInit ==
    /\ AppInit /\ apiKey
    /\ ServiceIdle /\ CleanIdle
    /\ EditorInit

EditorNext ==
    \/ editorMount /\ UNCHANGED <<appVars, serviceVars, cleanVars>>
    \/ editorContentChange /\ UNCHANGED <<appVars, serviceVars, cleanVars>>
    \/ editorFileSwitch /\ UNCHANGED <<appVars, serviceVars, cleanVars>>
    \/ editorUnmount /\ UNCHANGED <<appVars, serviceVars, cleanVars>>

\* the Editor component under content changes and file switches
SpecEditor == EditorSpecInit /\ [][EditorNext]_vars

\* ------------------------------------------------------------------------
\* Properties
\* ------------------------------------------------------------------------

\* C1: in every reachable state of App, a stored simulationResult or
\* examResult implies that a question is loaded.
C1_ResultImpliesQuestion ==
    (simulationResult # Null \/ examResult # Null) => question # Null

\* C2: at most one interval registered by App is active at any time, and it
\* is the one timerRef holds.
C2_SingleTimer ==
    /\ Cardinality(intervals) <= 1
    /\ intervals \subseteq {timerRef}

\* C2 witness: the timer runs again after an exam result was dismissed
C2_TimerRestarted ==
    lastOp = "reviewCode" /\ intervals # {} /\ nextId > 2

\* C3: an interval is registered exactly while a question is loaded and no
\* exam result is stored, and elapsedTime increases by 1 only in such states.
C3_TicksOnlyWhileQuestionOpen ==
    /\ [](intervals # {} <=> (question # Null /\ examResult = Null))
    /\ [][elapsedTime' = elapsedTime + 1 =>
            (question # Null /\ examResult = Null)]_vars

\* C3 witness: the timer has ticked on a loaded question
C3_Ticked ==
    lastOp = "tick" /\ elapsedTime = 1 /\ question # Null /\ examResult = Null

\* C4: the loaded question has initialCode equal to codeSnippet, and after
\* handleReset userCode is the code the editor was loaded with for it.
C4_ResetRestoresLoadedCode ==
    /\ question # Null => question[1].initialCode = question[1].codeSnippet
    /\ lastOp = "handleReset" => userCode = loadedCode

\* C4 witness: Reset pressed after a run, on a question whose snippet the
\* service had to clean
C4_ResetAfterRun ==
    /\ lastOp = "handleReset"
    /\ runs = 1
    /\ presses = 2
    /\ loadedCode \notin RawSnippets

\* C5: every stored examResult has grade in 2..6 and both scores in 0..100.
C5_ExamResultInRange ==
    examResult # Null =>
        /\ examResult[1].grade \in 2..6
        /\ examResult[1].styleScore \in 0..100
        /\ examResult[1].correctnessScore \in 0..100

\* C6 as claimed: the attempts given to gradeExam are the handleRunCode
\* invocations on the question since it was loaded.
C6_AttemptsAreRuns ==
    \A c \in calls : c.op = "gradeExam" => c.attempts = c.runs

\* C6 as amended: the attempts given to gradeExam are the handleRunCode and
\* handleReset invocations since the question was loaded or its exam result
\* was last dismissed.
C6_AttemptsArePresses ==
    \A c \in calls : c.op = "gradeExam" => c.attempts = c.presses

\* C6 witness: a grading call sent after one run and one reset
C6_GradedAfterRunAndReset ==
    \E c \in calls : c.op = "gradeExam" /\ c.attempts = 2 /\ c.runs = 1

\* C7: when generateQuestion throws, question stays null, userCode is
\* unchanged, error is the thrown message or the fallback, and isGenerating
\* is false again.
C7_GenerationFailure ==
    [][lastOp' = "generateFailed" =>
         /\ question' = Null
         /\ userCode' = userCode
         /\ ~isGenerating'
         /\ error' \in {Some(NoResponse), Some(SyntaxError), Some("fetch failed"),
                        Some(NoApiKey), Some(FailedToGenerate)}
         /\ ~apiKey => error' = Some(NoApiKey)]_vars

\* C7 witness: a generation failed with an error that has no message
C7_FailedWithFallback ==
    /\ lastOp = "generateFailed"
    /\ error = Some(FailedToGenerate)
    /\ question = Null
    /\ ~isGenerating

\* what C8 says of the requests and of the errors of a completed invocation
ServiceErrors ==
    /\ requestsSent = (IF apiKey THEN invocations ELSE 0)
    /\ service.pc = "done" =>
        /\ service.requests = (IF apiKey THEN 1 ELSE 0)
        /\ ~apiKey => service.result = Some(Throw(NoApiKey))
        /\ (service.response # Null /\ ~service.response[1].rejected
              /\ service.response[1].text = <<>>)
               => service.result = Some(Throw(NoResponse))

\* C8 as claimed: one request per invocation and none without the API key,
\* the two errors, and a returned value that is the parsed JSON of the
\* response.
C8_ReturnsParsedJSON ==
    /\ ServiceErrors
    /\ (service.pc = "done" /\ ~service.result[1].threw) =>
          service.result[1].value = JSONparse(service.response[1].text).value

\* C8 as amended: as claimed, but generateQuestion returns the parsed JSON
\* with codeSnippet replaced by cleanCode(codeSnippet) and with initialCode
\* set to the same string.
C8_ReturnsParsedOrCleaned ==
    /\ ServiceErrors
    /\ (service.pc = "done" /\ ~service.result[1].threw) =>
          LET data == JSONparse(service.response[1].text).value[1]
              value == service.result[1].value[1]
          IN IF service.op = "generateQuestion"
             THEN /\ value.codeSnippet = cleanCode(data.codeSnippet)
                  /\ value.initialCode = value.codeSnippet
             ELSE value = data

\* C8 witness: generateQuestion returned a snippet it had to clean
C8_ReturnedCleaned ==
    /\ service.pc = "done"
    /\ service.op = "generateQuestion"
    /\ ~service.result[1].threw
    /\ service.result[1].value[1].codeSnippet
         # JSONparse(service.response[1].text).value[1].codeSnippet

HasLineComment(s) == \E i \in 1..(Len(s) - 1) : s[i] = "/" /\ s[i + 1] = "/"
HasBlockComment(s) ==
    \E i \in 1..(Len(s) - 1) : s[i] = "/" /\ s[i + 1] = "*" /\ Closers(s, i) # {}
HasLongNewlineRun(s) ==
    \E i \in 1..(Len(s) - 2) : s[i] = "\n" /\ s[i + 1] = "\n" /\ s[i + 2] = "\n"

\* C9: the result of cleanCode contains no "//", no complete block comment,
\* no run of 3 or more newlines and no leading or trailing whitespace.
C9_CleanCodeHasNoComments ==
    cleaned # Null =>
        /\ ~HasLineComment(cleaned[1])
        /\ ~HasBlockComment(cleaned[1])
        /\ ~HasLongNewlineRun(cleaned[1])
        /\ cleaned[1] # <<>> =>
              /\ cleaned[1][1] \notin Whitespace
              /\ cleaned[1][Len(cleaned[1])] \notin Whitespace

\* C9 witness: cleanCode was applied to a string with a block comment and
\* returned the rest of it
C9_CleanedComments ==
    /\ cleaned # Null
    /\ HasBlockComment(code)
    /\ cleaned[1] # <<>>
    /\ Len(cleaned[1]) < Len(code)

\* C10: after a content change or file switch processed by the mounted
\* Editor, decorationsRef holds exactly the occurrences of the placeholder
\* in the current content.
C10_DecorationsMatchContent ==
    (editorRef /\ editorOp \in {"mount", "contentChange", "fileSwitch"}) =>
        decorationsRef = Matches(files[activeFile(files, activeFileName)], 1)

\* C11: in every step that keeps examResult non-null, userCode, attempts and
\* elapsedTime are unchanged and no simulateJavaCode or gradeExam call is
\* started.
C11_FrozenWhileResultStored ==
    [][(examResult # Null /\ examResult' # Null) =>
         /\ userCode' = userCode
         /\ attempts' = attempts
         /\ elapsedTime' = elapsedTime
         /\ \A c \in calls' \ calls : c.op = "generateQuestion"]_vars

\* C12: a simulation result stored while a question is loaded was produced by
\* a Run issued on that question.
C12_SimulationOfLoadedQuestion ==
    (question # Null /\ simulationResult # Null) => simFor = question[1].id

\* C13: an exam result stored while a question is loaded was produced by a
\* gradeExam call started for that question.
C13_GradeOfLoadedQuestion ==
    (question # Null /\ examResult # Null) =>
        gradedBy[1].qid = question[1].id

\* C14: the Time and Attempts of the exam result modal equal the
\* timeSpentSeconds and attempts that were sent to the gradeExam call that
\* produced the result.
C14_ModalShowsSentMetrics ==
    ModalShown =>
        /\ ModalTime = formatTime(gradedBy[1].timeSpentSeconds)
        /\ ModalAttempts = gradedBy[1].attempts

\* C15 as stated: right after Review Code the editor is editable, Reset,
\* Test Run and Finish are enabled, attempts and elapsedTime are 0 and the
\* timer runs.
C15_ReviewEnablesEverything ==
    lastOp = "reviewCode" =>
        /\ QuizShown /\ examResult = Null
        /\ ~readOnly /\ ~ResetDisabled /\ ~RunDisabled /\ ~FinishDisabled
        /\ attempts = 0 /\ elapsedTime = 0
        /\ intervals = {timerRef}

\* C15 amended: right after Review Code the editor is editable, Reset and
\* Finish are enabled, Test Run is disabled only while a simulateJavaCode call
\* is still awaited, attempts and elapsedTime are 0 and exactly one timer
\* runs; and every gradeExam call is given the ticks and the Run / Reset
\* presses counted since the question was loaded or its result was last
\* dismissed.
C15_ReviewReopensQuestion ==
    /\ lastOp = "reviewCode" =>
        /\ QuizShown /\ examResult = Null
        /\ ~readOnly /\ ~ResetDisabled /\ ~FinishDisabled
        /\ RunDisabled => \E c \in calls : c.op = "simulateJavaCode"
        /\ attempts = 0 /\ elapsedTime = 0
        /\ intervals = {timerRef}
    /\ \A c \in calls : c.op = "gradeExam" =>
        /\ c.timeSpentSeconds = c.ticks
        /\ c.attempts = c.presses

\* a second grading issued after Review Code while the Run made before the
\* first grading is still awaited: it reports 0 attempts although the
\* question has been run once since it was loaded
C15_RegradedAfterReview ==
    /\ lastOp = "handleFinishExam"
    /\ isSimulating
    /\ \E c \in calls : c.op = "gradeExam" /\ c.runs = 1 /\ c.attempts = 0

====
